---------------------------- MODULE Spec2Model ----------------------------
(***************************************************************************)
(* Model of the coordination layer of AsyncRedisService                    *)
(* (src/src/lvrgd/common/services/redis/async_redis_service.py):           *)
(*   - check_rate_limit: sliding window (sorted set) and fixed window      *)
(*     (counter) rate limiting,                                            *)
(*   - get_or_compute and the cache decorator's wrapper: cache-aside with  *)
(*     an advisory lock key "<key>:lock".                                  *)
(* The Redis store is modelled by the keys these operations touch, each    *)
(* with an optional absolute expiry time; the clock is a counter of        *)
(* seconds.                                                                *)
(***************************************************************************)
EXTENDS Integers, Sequences, FiniteSets, TLC

(***************************************************************************)
(* Bounds of the model.                                                    *)
(***************************************************************************)
MaxTime == 4

MaxLimit == 2

MaxWindow == 2

MaxChecks == 4

MaxCacheTime == 1

MaxRateTime == 2

MaxRateChecks == 3

MaxKwargs == 2

MaxOps == 3

MaxEx == 1

Procs == {1, 2}

NoExpiry == -1

VARIABLES
    now,             \* the clock: time.time() on the client, TTL clock on the server
    max_requests,    \* check_rate_limit argument, the same for every call of a run
    window_seconds,  \* check_rate_limit argument, the same for every call of a run
    sliding,         \* check_rate_limit argument, the same for every call of a run
    zset,            \* sliding window: members of the sorted set (member = str(score))
    zset_exp,        \* sliding window: expiry time of the sorted set key
    sl_pc,           \* sliding window: position of each caller
    sl_now,          \* sliding window: the local `now` of each caller
    sl_log,          \* sliding window: results of the executed checks, in execution order
    counter,         \* fixed window: value of the counter key, 0 when the key is absent
    counter_exp,     \* fixed window: expiry time of the counter key
    counter_gen,     \* fixed window: number of times the counter key was created
    counter_born,    \* fixed window: when the counter key was last created, -1 if never
    counter_ttl_at,  \* fixed window: when the last created counter key was given its
                     \* expiry, -1 if it has not been given one
    fx_pc,           \* fixed window: position of each caller
    fx_count,        \* fixed window: the local current_count of each caller
    fx_gen,          \* fixed window: the counter lifetime each caller incremented in
    fx_obs,          \* fixed window: what each caller's increment found (the time, and
                     \* counter_born and counter_ttl_at just before it)
    fx_log,          \* fixed window: outcomes of the finished checks, in completion order
    args,            \* cache: which operation is called and its arguments, the same
                     \* for every call of a run
    kv,              \* cache: text stored under the cache key, NoValue when absent
    kv_exp,          \* cache: expiry time of the cache key
    lock,            \* cache: TRUE when the key "<key>:lock" is present
    lock_exp,        \* cache: expiry time of the lock key
    call,            \* cache: the position, locals and outcome of each caller's call
    cfg_namespace,   \* keys: config.namespace of the service, NoString when not set
    key_prefix,      \* keys: the decorator's key_prefix argument
    namespace,       \* keys: the decorator's namespace argument
    store_keys,      \* keys: the keys present in the store
    made,            \* keys: the keys each wrapped function's wrapper has written
    inv_log,         \* keys: the calls and invalidations made, in order
    derive_in,       \* keys: the inputs of a key derivation
    derive_out       \* keys: the two keys derived from them, NotDerived before

slidingVars == <<zset, zset_exp, sl_pc, sl_now, sl_log>>

fixedVars == <<counter, counter_exp, counter_gen, counter_born, counter_ttl_at,
               fx_pc, fx_count, fx_gen, fx_obs, fx_log>>

cacheVars == <<args, kv, kv_exp, lock, lock_exp, call>>

keyVars == <<cfg_namespace, key_prefix, namespace, store_keys, made, inv_log,
             derive_in, derive_out>>

vars == <<now, max_requests, window_seconds, sliding, slidingVars, fixedVars,
          cacheVars, keyVars>>

\* max(0, ...) of the remaining computations.
Max_Second(a, b) == b

Max(a, b) == IF a >= b THEN a ELSE b

(***************************************************************************)
(* Store primitives.                                                       *)
(***************************************************************************)
\* EXPIRE key seconds: the key's absolute expiry time.
Expire(seconds) == now + seconds

\* EXPIRE key seconds with seconds <= 0 deletes the key at once.
ExpireDeletes(seconds) == seconds <= 0

\* A key with an expiry is removed by the store once the clock reaches it.
Expired(exp, t) == exp # NoExpiry /\ exp <= t

\* ZREMRANGEBYSCORE key lo hi: drops the members with lo <= score <= hi.
ZRemRangeByScore_Keep(members, lo, hi) == members

ZRemRangeByScore(members, lo, hi) == {m \in members : ~(lo <= m /\ m <= hi)}

\* ZADD key {str(now): now}: the member is the text of the score, so adding a
\* score already present only rewrites that member.
ZAdd(members, score) == members \cup {score}

(***************************************************************************)
(* _check_rate_limit_sliding                                               *)
(***************************************************************************)
SlidingRemaining_NoSelf(maxreq, current_count) == Max(0, maxreq - current_count)

SlidingRemaining(maxreq, current_count) == Max(0, maxreq - current_count - 1)

SlidingAllowed(maxreq, current_count) == current_count < maxreq

\* check_rate_limit has no handler around its store calls: an error raised by
\* the store reaches the caller as it is, and no pair is returned.
StoreErrorOutcome_FailOpen(result) ==
    [result EXCEPT !.allowed = TRUE, !.remaining = max_requests]

StoreErrorOutcome(result) == [result EXCEPT !.error = TRUE]

\* The sorted set after the batch zremrangebyscore, zadd, expire of the caller
\* whose local `now` is ts.
SlidingPruned(ts) == ZRemRangeByScore(zset, 0, ts - window_seconds)

SlidingStored(ts) ==
    IF ExpireDeletes(window_seconds) THEN {} ELSE ZAdd(SlidingPruned(ts), ts)

SlidingStoredExpiry ==
    IF ExpireDeletes(window_seconds) THEN NoExpiry ELSE Expire(window_seconds)

SlidingResult(ts, current_count) ==
    [ts |-> ts,
     at |-> now,
     before |-> zset,
     counted |-> SlidingPruned(ts),
     stored |-> SlidingStored(ts),
     count |-> current_count,
     error |-> FALSE,
     store_failed |-> FALSE,
     allowed |-> SlidingAllowed(max_requests, current_count),
     remaining |-> SlidingRemaining(max_requests, current_count)]

\* if sliding: ...; now = time.time(); window_start = now - window_seconds
CheckSlidingStart(p) ==
    /\ sliding
    /\ sl_pc[p] = "idle"
    /\ Len(sl_log) + Cardinality({q \in Procs : sl_pc[q] = "pipe"}) < MaxChecks
    /\ sl_pc' = [sl_pc EXCEPT ![p] = "pipe"]
    /\ sl_now' = [sl_now EXCEPT ![p] = now]
    /\ UNCHANGED <<now, max_requests, window_seconds, sliding, zset, zset_exp, sl_log>>
    /\ UNCHANGED <<fixedVars, cacheVars, keyVars>>

\* The MULTI/EXEC batch: zremrangebyscore, zcard, zadd, expire; then the result.
CheckSlidingExecute(p) ==
    /\ sl_pc[p] = "pipe"
    /\ zset' = SlidingStored(sl_now[p])
    /\ zset_exp' = SlidingStoredExpiry
    /\ sl_log' = Append(sl_log,
           SlidingResult(sl_now[p], Cardinality(SlidingPruned(sl_now[p]))))
    /\ sl_pc' = [sl_pc EXCEPT ![p] = "idle"]
    /\ UNCHANGED <<now, max_requests, window_seconds, sliding, sl_now>>
    /\ UNCHANGED <<fixedVars, cacheVars, keyVars>>

\* pipe.execute() raises a store error: the batch was not applied (the store
\* was unreachable) or was applied and its reply lost.
CheckSlidingFails(p, applied) ==
    /\ sl_pc[p] = "pipe"
    /\ zset' = IF applied THEN SlidingStored(sl_now[p]) ELSE zset
    /\ zset_exp' = IF applied THEN SlidingStoredExpiry ELSE zset_exp
    /\ sl_log' = Append(sl_log,
           [StoreErrorOutcome(SlidingResult(sl_now[p], 0)) EXCEPT !.store_failed = TRUE])
    /\ sl_pc' = [sl_pc EXCEPT ![p] = "idle"]
    /\ UNCHANGED <<now, max_requests, window_seconds, sliding, sl_now>>
    /\ UNCHANGED <<fixedVars, cacheVars, keyVars>>

(***************************************************************************)
(* _check_rate_limit_fixed                                                 *)
(***************************************************************************)
FixedRemaining_LessSelf(maxreq, current_count) == Max(0, maxreq - current_count - 1)

FixedRemaining(maxreq, current_count) == Max(0, maxreq - current_count)

FixedAllowed_Strict(maxreq, current_count) == current_count < maxreq

FixedAllowed(maxreq, current_count) == current_count <= maxreq

\* if current_count == 1: await self.expire(key, window_seconds)
FixedSetsExpiry_Always(current_count) == TRUE

FixedSetsExpiry(current_count) == current_count = 1

FixedResult(gen, current_count) ==
    [gen |-> gen,
     count |-> current_count,
     error |-> FALSE,
     store_failed |-> FALSE,
     allowed |-> FixedAllowed(max_requests, current_count),
     remaining |-> FixedRemaining(max_requests, current_count)]

\* What an increment finds: the time, and when the counter key it meets was
\* created and given its expiry.
FixedObserved == [at |-> now, born |-> counter_born, ttl_at |-> counter_ttl_at]

\* current_count = await self.incr(key, 1): INCR creates the key at 1 when it is
\* absent and never touches its expiry.  A count that does not ask for the
\* expire returns.
CheckFixedIncr(p) ==
    /\ ~sliding
    /\ fx_pc[p] = "idle"
    /\ Len(fx_log) + Cardinality({q \in Procs : fx_pc[q] = "expire"}) < MaxChecks
    /\ LET current_count == counter + 1
           gen == IF counter = 0 THEN counter_gen + 1 ELSE counter_gen
       IN /\ counter' = current_count
          /\ counter_gen' = gen
          /\ counter_born' = IF counter = 0 THEN now ELSE counter_born
          /\ counter_ttl_at' = IF counter = 0 THEN -1 ELSE counter_ttl_at
          /\ fx_count' = [fx_count EXCEPT ![p] = current_count]
          /\ fx_gen' = [fx_gen EXCEPT ![p] = gen]
          /\ fx_obs' = [fx_obs EXCEPT ![p] = FixedObserved]
          /\ IF FixedSetsExpiry(current_count)
             THEN /\ fx_pc' = [fx_pc EXCEPT ![p] = "expire"]
                  /\ UNCHANGED fx_log
             ELSE /\ fx_log' = Append(fx_log,
                         FixedResult(gen, current_count) @@ FixedObserved)
                  /\ UNCHANGED fx_pc
    /\ UNCHANGED <<now, max_requests, window_seconds, sliding, counter_exp>>
    /\ UNCHANGED <<slidingVars, cacheVars, keyVars>>

\* The incr call raises a store error: the increment was not applied (the
\* store was unreachable) or was applied and its reply lost.
CheckFixedIncrFails(p, applied) ==
    /\ ~sliding
    /\ fx_pc[p] = "idle"
    /\ Len(fx_log) + Cardinality({q \in Procs : fx_pc[q] = "expire"}) < MaxChecks
    /\ LET gen == IF applied /\ counter = 0 THEN counter_gen + 1 ELSE counter_gen
       IN /\ counter' = IF applied THEN counter + 1 ELSE counter
          /\ counter_gen' = gen
          /\ counter_born' = IF applied /\ counter = 0 THEN now ELSE counter_born
          /\ counter_ttl_at' = IF applied /\ counter = 0 THEN -1 ELSE counter_ttl_at
          /\ fx_log' = Append(fx_log,
                 [StoreErrorOutcome(FixedResult(gen, 0)) EXCEPT !.store_failed = TRUE]
                     @@ FixedObserved)
    /\ UNCHANGED <<now, max_requests, window_seconds, sliding, counter_exp,
                   fx_pc, fx_count, fx_gen, fx_obs>>
    /\ UNCHANGED <<slidingVars, cacheVars, keyVars>>

\* await self.expire(key, window_seconds); then the result.  EXPIRE on an
\* absent key changes nothing.
CheckFixedExpire(p) ==
    /\ fx_pc[p] = "expire"
    /\ IF counter = 0
       THEN UNCHANGED <<counter, counter_exp, counter_ttl_at>>
       ELSE /\ counter' = IF ExpireDeletes(window_seconds) THEN 0 ELSE counter
            /\ counter_exp' = IF ExpireDeletes(window_seconds)
                                 THEN NoExpiry ELSE Expire(window_seconds)
            /\ counter_ttl_at' = now
    /\ fx_log' = Append(fx_log, FixedResult(fx_gen[p], fx_count[p]) @@ fx_obs[p])
    /\ fx_pc' = [fx_pc EXCEPT ![p] = "idle"]
    /\ UNCHANGED <<now, max_requests, window_seconds, sliding, counter_gen,
                   counter_born, fx_count, fx_gen, fx_obs>>
    /\ UNCHANGED <<slidingVars, cacheVars, keyVars>>

\* The expire call raises a store error (or the caller dies before it): the
\* error propagates and the counter keeps whatever expiry it had.
CheckFixedExpireFails(p) ==
    /\ fx_pc[p] = "expire"
    /\ fx_log' = Append(fx_log,
           [StoreErrorOutcome(FixedResult(fx_gen[p], fx_count[p]))
               EXCEPT !.store_failed = TRUE] @@ fx_obs[p])
    /\ fx_pc' = [fx_pc EXCEPT ![p] = "idle"]
    /\ UNCHANGED <<now, max_requests, window_seconds, sliding, counter, counter_exp,
                   counter_gen, counter_born, counter_ttl_at, fx_count, fx_gen, fx_obs>>
    /\ UNCHANGED <<slidingVars, cacheVars, keyVars>>

(***************************************************************************)
(* Python values and their conversions.  A value is its type and its text  *)
(* (str(value)); the store holds texts.                                    *)
(***************************************************************************)
PyNone == [t |-> "none", v |-> "None"]

PyInt == [t |-> "int", v |-> "1"]

PyStr(text) == [t |-> "str", v |-> text]

PyDict == [t |-> "dict", v |-> "{'result': 'v'}"]

\* The values compute() returns in the model.
ComputeValues == {PyNone, PyInt, PyStr("1"), PyDict}

\* The text of an absent key (GET returns None).
NoValue == "<nil>"

\* str(result), as written by get_or_compute with serialize_json=False.
Str(val) == val.v

\* json.dumps(value), as written by set_json.
JsonDumps(val) ==
    CASE val.t = "none" -> "null"
      [] val.t = "int" -> val.v
      [] val.t = "str" -> "\"" \o val.v \o "\""
      [] val.t = "dict" -> "{\"result\": \"v\"}"

\* json.loads(text), as read by get_json; a text that is not JSON raises.
JsonLoads(text) ==
    CASE text = "null" -> PyNone
      [] text = "1" -> PyInt
      [] text = "\"1\"" -> PyStr("1")
      [] text = "{\"result\": \"v\"}" -> PyDict
      [] OTHER -> [t |-> "JSONDecodeError", v |-> text]

\* get_json(key) / get(key): None for an absent key, else the decoded value
\* (get_json) or the stored text itself (get).
ReadValue(serialize_json, text) ==
    IF text = NoValue THEN PyNone
    ELSE IF serialize_json THEN JsonLoads(text)
    ELSE PyStr(text)

\* `if cached is not None`
IsHit(cached) == cached # PyNone

\* skip_cache_if=lambda x: x is None
SkipCacheIf_Never(val) == FALSE

SkipCacheIf(val) == val = PyNone

(***************************************************************************)
(* get_or_compute (kind "goc") and the cache decorator's wrapper (kind     *)
(* "wrap").                                                                *)
(***************************************************************************)
CacheProcs == {1, 2}

\* The other caller.
Other(p) == CHOOSE q \in CacheProcs : q # p

\* ex=None
ExNone == 0

LockDefaultEx == 60

\* The expiry of the lock key: `ex or 60` in get_or_compute, ttl in the wrapper.
LockEx_AsGiven(kind, e) == e

LockEx(kind, e) == IF kind = "goc" /\ e = ExNone THEN LockDefaultEx ELSE e

\* SET/SETEX expiry of the cache entry: none when ex is None.
EntryExpiry(e) == IF e = ExNone THEN NoExpiry ELSE now + e

StoreSteps == {"read", "lock", "reread", "write", "unlock"}

\* The store calls whose exceptions the caller never sees: the wrapper wraps
\* its two reads and its write in try/except Exception; get_or_compute has no
\* handler at all.
Swallows_ReadsOnly(kind, step) == kind = "wrap" /\ step \in {"read", "reread"}

Swallows(kind, step) == kind = "wrap" /\ step \in {"read", "reread", "write"}

\* An exception of compute()/func() reaches the caller (`raise` in the wrapper).
ComputeErrorPropagates_Swallowed(kind) == kind = "goc"

ComputeErrorPropagates(kind) == TRUE

\* Where a caller goes after a miss of the first read.
AfterMiss(kind, prevent_thundering_herd) ==
    IF kind = "goc" \/ prevent_thundering_herd THEN "lock" ELSE "compute"

\* Where a caller goes after SET NX on the lock key.
AfterLock_NoReread(lock_acquired) == "compute"

AfterLock(lock_acquired) == IF lock_acquired THEN "compute" ELSE "reread"

IdleCall ==
    [pc |-> "idle", first |-> "none", first_text |-> NoValue, reread |-> "none",
     lock_acquired |-> FALSE, computed |-> 0, raised |-> FALSE,
     result |-> PyNone, wrote |-> {}, write_failed |-> FALSE,
     t_start |-> 0, overlap |-> FALSE, after |-> FALSE,
     outcome |-> "none", error_at |-> "none", ret |-> PyNone]

Active(p) == call[p].pc \notin {"idle", "done"}

Done(p) == call[p].pc = "done"

\* The call of p ends with a value or with an exception; its record stays
\* until p calls again.
Finish(p, c, outcome, ret) ==
    call' = [call EXCEPT ![p] = [c EXCEPT !.pc = "done", !.outcome = outcome,
                                          !.ret = ret]]

Continue(p, c, pc) == call' = [call EXCEPT ![p] = [c EXCEPT !.pc = pc]]

\* The status of a read, recorded under "first" or "reread".
NoteRead(c, status, text) ==
    IF c.pc = "read"
    THEN [c EXCEPT !.first = status, !.first_text = text]
    ELSE [c EXCEPT !.reread = status]

\* A read that did not hit: on to the lock (first read) or to compute (re-read).
Missed_Retry(p, c) ==
    Continue(p, c, IF c.pc = "read"
                   THEN AfterMiss(args.kind, args.prevent_thundering_herd)
                   ELSE "lock")

Missed(p, c) ==
    Continue(p, c, IF c.pc = "read"
                   THEN AfterMiss(args.kind, args.prevent_thundering_herd)
                   ELSE "compute")

\* A call begins: get_or_compute(key, compute, ex, serialize_json), or a call
\* of a function wrapped by cache(ttl, skip_cache_if, prevent_thundering_herd).
\* "after" and "overlap" record how the call lies relative to the other
\* caller's call.
CacheStart(p) ==
    /\ ~Active(p)
    /\ LET q == Other(p)
       IN call' = [call EXCEPT
                     ![p] = [IdleCall EXCEPT !.pc = "read", !.t_start = now,
                                             !.overlap = Active(q),
                                             !.after = Done(q)],
                     ![q] = [@ EXCEPT !.after = FALSE,
                                      !.overlap = @ \/ Active(q)]]
    /\ UNCHANGED <<args, kv, kv_exp, lock, lock_exp>>
    /\ UNCHANGED <<now, max_requests, window_seconds, sliding, slidingVars, fixedVars, keyVars>>

\* cached = get_json(key) or get(key), first read and re-read.
CacheRead(p) ==
    /\ call[p].pc \in {"read", "reread"}
    /\ LET c == call[p]
           cached == ReadValue(args.serialize_json, kv)
       IN IF cached.t = "JSONDecodeError"
          THEN IF Swallows(args.kind, c.pc)
               THEN Missed(p, NoteRead(c, "corrupt", kv))
               ELSE Finish(p, [NoteRead(c, "corrupt", kv) EXCEPT !.error_at = c.pc],
                           "decode_error", PyNone)
          ELSE IF IsHit(cached)
               THEN Finish(p, NoteRead(c, "hit", kv), "value", cached)
               ELSE Missed(p, NoteRead(c, "miss", kv))
    /\ UNCHANGED <<args, kv, kv_exp, lock, lock_exp>>
    /\ UNCHANGED <<now, max_requests, window_seconds, sliding, slidingVars, fixedVars, keyVars>>

\* lock_acquired = set(lock_key, "1", ex=..., nx=True)
CacheLock(p) ==
    /\ call[p].pc = "lock"
    /\ LET c == call[p]
           lock_acquired == ~lock
       IN /\ IF lock_acquired
             THEN /\ lock' = TRUE
                  /\ lock_exp' = now + LockEx(args.kind, args.ex)
             ELSE UNCHANGED <<lock, lock_exp>>
          /\ Continue(p, [c EXCEPT !.lock_acquired = lock_acquired,
                                   !.wrote = IF lock_acquired
                                             THEN c.wrote \cup {"lock"}
                                             ELSE c.wrote],
                      AfterLock(lock_acquired))
    /\ UNCHANGED <<args, kv, kv_exp>>
    /\ UNCHANGED <<now, max_requests, window_seconds, sliding, slidingVars, fixedVars, keyVars>>

\* result = compute() / func(*args, **kwargs) returns val.
CacheCompute(p, val) ==
    /\ call[p].pc = "compute"
    /\ LET c == [call[p] EXCEPT !.result = val, !.computed = @ + 1]
       IN IF args.kind = "wrap" /\ args.skip_cache_if /\ SkipCacheIf(val)
          THEN Finish(p, c, "value", val)
          ELSE Continue(p, c, "write")
    /\ UNCHANGED <<args, kv, kv_exp, lock, lock_exp>>
    /\ UNCHANGED <<now, max_requests, window_seconds, sliding, slidingVars, fixedVars, keyVars>>

\* compute() / func(*args, **kwargs) raises.
CacheComputeRaises(p) ==
    /\ call[p].pc = "compute"
    /\ LET c == [call[p] EXCEPT !.raised = TRUE, !.computed = @ + 1]
       IN IF ComputeErrorPropagates(args.kind)
          THEN Finish(p, c, "compute_error", PyNone)
          ELSE Finish(p, c, "value", PyNone)
    /\ UNCHANGED <<args, kv, kv_exp, lock, lock_exp>>
    /\ UNCHANGED <<now, max_requests, window_seconds, sliding, slidingVars, fixedVars, keyVars>>

\* set_json(key, result, ex) or set(key, str(result), ex); the wrapper returns
\* here, get_or_compute goes on to delete the lock.
CacheWrite(p) ==
    /\ call[p].pc = "write"
    /\ LET c == [call[p] EXCEPT !.wrote = @ \cup {"key"}]
       IN /\ kv' = IF args.serialize_json THEN JsonDumps(c.result) ELSE Str(c.result)
          /\ kv_exp' = EntryExpiry(args.ex)
          /\ IF args.kind = "goc"
             THEN Continue(p, c, "unlock")
             ELSE Finish(p, c, "value", c.result)
    /\ UNCHANGED <<args, lock, lock_exp>>
    /\ UNCHANGED <<now, max_requests, window_seconds, sliding, slidingVars, fixedVars, keyVars>>

\* delete(lock_key), then return result (get_or_compute only).
CacheUnlock(p) ==
    /\ call[p].pc = "unlock"
    /\ lock' = FALSE
    /\ lock_exp' = NoExpiry
    /\ Finish(p, [call[p] EXCEPT !.wrote = @ \cup {"lock"}], "value", call[p].result)
    /\ UNCHANGED <<args, kv, kv_exp>>
    /\ UNCHANGED <<now, max_requests, window_seconds, sliding, slidingVars, fixedVars, keyVars>>

\* The store call the caller is about to make raises (connection error): the
\* store is unchanged; the wrapper's handlers turn a failed read into a miss
\* and a failed write into a plain return, everything else propagates.
CacheStoreError(p) ==
    /\ call[p].pc \in StoreSteps
    /\ LET c == call[p]
       IN IF Swallows(args.kind, c.pc)
          THEN IF c.pc = "write"
               THEN Finish(p, [c EXCEPT !.write_failed = TRUE], "value", c.result)
               ELSE Missed(p, NoteRead(c, "fail", NoValue))
          ELSE Finish(p, [(IF c.pc \in {"read", "reread"}
                           THEN NoteRead(c, "fail", NoValue) ELSE c)
                             EXCEPT !.error_at = c.pc],
                      "store_error", PyNone)
    /\ UNCHANGED <<args, kv, kv_exp, lock, lock_exp>>
    /\ UNCHANGED <<now, max_requests, window_seconds, sliding, slidingVars, fixedVars, keyVars>>

(***************************************************************************)
(* Cache keys of wrapped functions: _generate_cache_key, invalidate and    *)
(* invalidate_all.                                                         *)
(***************************************************************************)
\* None, for an optional string.
NoString == "<None>"

\* `if namespace:` -- a string that is neither None nor empty.
Truthy(s) == s # NoString /\ s # ""

\* func.__name__ of the wrapped functions.
Funcs == {"get_user", "get_user_profile"}

\* The keyword names, in string order.
KwNames == <<"active", "limit", "page">>

KwRank(name) == CHOOSE i \in 1..Len(KwNames) : KwNames[i] = name

\* The values passed as arguments.
ArgValues == {PyInt, PyStr("2")}

\* A keyword-argument dict is the sequence of its (name, value) items in
\* insertion order; a name occurs once.
KwItems == {<<KwNames[i], v>> : i \in 1..Len(KwNames), v \in ArgValues}

KwargsOfLen(n) ==
    {kw \in [1..n -> KwItems] : \A i, j \in 1..n : i # j => kw[i][1] # kw[j][1]}

Kwargs == UNION {KwargsOfLen(n) : n \in 0..MaxKwargs}

\* sep.join(parts)
RECURSIVE Join(_, _)
Join(parts, sep) ==
    IF parts = <<>> THEN ""
    ELSE IF Len(parts) = 1 THEN parts[1]
    ELSE parts[1] \o sep \o Join(Tail(parts), sep)

SerializeCacheArg(arg) ==
    CASE arg.t = "str" -> arg.v
      [] arg.t = "int" -> Str(arg)
      [] arg.t = "dict" -> JsonDumps(arg)
      [] OTHER -> Str(arg)

\* sorted(kwargs.items()): the names are distinct, so the items are ordered
\* by name.
SortedItems_AsInserted(items) == items

SortedItems(items) == SortSeq(items, LAMBDA x, y : KwRank(x[1]) < KwRank(y[1]))

\* f"{key}={self._serialize_cache_arg(value)}"
KwPart(item) == item[1] \o "=" \o SerializeCacheArg(item[2])

GenerateCacheKey(func, prefix, ns, pos, kwargs) ==
    Join((IF ns # NoString THEN <<ns>> ELSE <<>>)
             \o (IF prefix # NoString THEN <<prefix>> ELSE <<>>)
             \o <<func>>
             \o [i \in 1..Len(pos) |-> SerializeCacheArg(pos[i])]
             \o [i \in 1..Len(kwargs) |-> KwPart(SortedItems(kwargs)[i])],
         ":")

\* _apply_namespace: the service's configured namespace goes in front.
ApplyNamespace(key) ==
    IF Truthy(cfg_namespace) THEN cfg_namespace \o ":" \o key ELSE key

\* The key set_json writes under.
SetJsonKey(key) == ApplyNamespace(key)

\* The key delete removes.
DeleteKey_Raw(key) == key

DeleteKey(key) == ApplyNamespace(key)

\* pattern = ":".join(pattern_parts) + "*"
InvalidateAllPattern(func) ==
    Join((IF Truthy(namespace) THEN <<namespace>> ELSE <<>>)
             \o (IF Truthy(key_prefix) THEN <<key_prefix>> ELSE <<>>)
             \o <<func>>,
         ":") \o "*"

\* A glob pattern that is a literal text followed by "*".
GlobMatch(pattern, key) ==
    LET n == Len(pattern) - 1
    IN Len(key) >= n /\ SubSeq(key, 1, n) = SubSeq(pattern, 1, n)

\* self._client.scan_iter(match=pattern): the raw client, no namespace applied.
ScanIter(pattern) == {k \in store_keys : GlobMatch(pattern, k)}

\* The arguments the wrapped functions are called and invalidated with; the
\* last two hold the same keyword arguments in different insertion order.
CallArgs ==
    {[pos |-> <<PyInt>>, kwargs |-> <<>>],
     [pos |-> <<PyStr("2")>>, kwargs |-> <<>>],
     [pos |-> <<PyInt>>, kwargs |-> << <<"active", PyInt>>, <<"limit", PyStr("2")>> >>],
     [pos |-> <<PyInt>>, kwargs |-> << <<"limit", PyStr("2")>>, <<"active", PyInt>> >>]}

KeyOp(op, f, ca, after, returned) ==
    [op |-> op, func |-> f, ca |-> ca,
     before |-> store_keys, after |-> after,
     own |-> made[f] \cap store_keys,
     returned |-> returned]

KeyFrame ==
    /\ UNCHANGED <<cfg_namespace, key_prefix, namespace, derive_in, derive_out>>
    /\ UNCHANGED <<now, max_requests, window_seconds, sliding>>
    /\ UNCHANGED <<slidingVars, fixedVars, cacheVars>>

\* wrapper: a call of the wrapped function f.  On a miss the result is written
\* under the derived key; on a hit nothing is written.
WrappedCall(f, ca) ==
    /\ Len(inv_log) < MaxOps
    /\ LET cache_key == GenerateCacheKey(f, key_prefix, namespace, ca.pos, ca.kwargs)
           stored == SetJsonKey(cache_key)
           after == store_keys \cup {stored}
       IN /\ store_keys' = after
          /\ made' = IF stored \in store_keys
                        THEN made ELSE [made EXCEPT ![f] = @ \cup {stored}]
          /\ inv_log' = Append(inv_log, KeyOp("call", f, ca, after, 0))
    /\ KeyFrame

\* invalidate(*args, **kwargs)
Invalidate(f, ca) ==
    /\ Len(inv_log) < MaxOps
    /\ LET cache_key == GenerateCacheKey(f, key_prefix, namespace, ca.pos, ca.kwargs)
           target == DeleteKey(cache_key)
           deleted == IF target \in store_keys THEN 1 ELSE 0
           after == store_keys \ {target}
       IN /\ store_keys' = after
          /\ inv_log' = Append(inv_log, KeyOp("invalidate", f, ca, after, deleted))
    /\ UNCHANGED made
    /\ KeyFrame

\* invalidate_all()
InvalidateAll(f) ==
    /\ Len(inv_log) < MaxOps
    /\ LET keys == ScanIter(InvalidateAllPattern(f))
           targets == {DeleteKey(k) : k \in keys}
           deleted == Cardinality(targets \cap store_keys)
           after == store_keys \ targets
       IN /\ store_keys' = after
          /\ inv_log' = Append(inv_log, KeyOp("invalidate_all", f, <<>>, after, deleted))
    /\ UNCHANGED made
    /\ KeyFrame

\* The inputs of one key derivation: a function, positional arguments and two
\* keyword-argument dicts.
DeriveInputs ==
    [func : Funcs, pos : {<<>>, <<PyInt>>}, kwargs1 : Kwargs, kwargs2 : Kwargs]

NotDerived == <<>>

\* _generate_cache_key applied to both keyword-argument dicts.
DeriveKeys ==
    /\ derive_out = NotDerived
    /\ derive_out' =
           <<GenerateCacheKey(derive_in.func, key_prefix, namespace,
                              derive_in.pos, derive_in.kwargs1),
             GenerateCacheKey(derive_in.func, key_prefix, namespace,
                              derive_in.pos, derive_in.kwargs2)>>
    /\ UNCHANGED <<cfg_namespace, key_prefix, namespace, derive_in>>
    /\ UNCHANGED <<store_keys, made, inv_log>>
    /\ UNCHANGED <<now, max_requests, window_seconds, sliding>>
    /\ UNCHANGED <<slidingVars, fixedVars, cacheVars>>

KeysInit ==
    /\ store_keys = {}
    /\ made = [f \in Funcs |-> {}]
    /\ inv_log = <<>>

DeriveUnused ==
    /\ derive_in = [func |-> "get_user", pos |-> <<>>, kwargs1 |-> <<>>, kwargs2 |-> <<>>]
    /\ derive_out = NotDerived

\* No wrapped function is declared in the other specifications.
KeysUnused ==
    /\ cfg_namespace = NoString
    /\ key_prefix = NoString
    /\ namespace = NoString
    /\ KeysInit
    /\ DeriveUnused

(***************************************************************************)
(* The clock advances by one second; the store drops the keys whose expiry *)
(* has been reached.                                                       *)
(***************************************************************************)
TickTo(bound) ==
    /\ now < bound
    /\ now' = now + 1
    /\ IF Expired(zset_exp, now + 1)
       THEN zset' = {} /\ zset_exp' = NoExpiry
       ELSE UNCHANGED <<zset, zset_exp>>
    /\ IF Expired(counter_exp, now + 1)
       THEN counter' = 0 /\ counter_exp' = NoExpiry
       ELSE UNCHANGED <<counter, counter_exp>>
    /\ UNCHANGED <<max_requests, window_seconds, sliding, sl_pc, sl_now, sl_log>>
    /\ IF Expired(kv_exp, now + 1)
       THEN kv' = NoValue /\ kv_exp' = NoExpiry
       ELSE UNCHANGED <<kv, kv_exp>>
    /\ IF Expired(lock_exp, now + 1)
       THEN lock' = FALSE /\ lock_exp' = NoExpiry
       ELSE UNCHANGED <<lock, lock_exp>>
    /\ UNCHANGED <<counter_gen, counter_born, counter_ttl_at, fx_pc, fx_count,
                   fx_gen, fx_obs, fx_log>>
    /\ UNCHANGED <<args, call, keyVars>>

Tick == TickTo(MaxTime)

(***************************************************************************)
(* Specification of the sliding window limiter on one key.                 *)
(***************************************************************************)
ClockInit == now = 0

RateConfigInit ==
    /\ max_requests \in 1..MaxLimit
    /\ window_seconds \in 1..MaxWindow

SlidingInit ==
    /\ zset = {}
    /\ zset_exp = NoExpiry
    /\ sl_pc = [p \in Procs |-> "idle"]
    /\ sl_now = [p \in Procs |-> 0]
    /\ sl_log = <<>>

FixedInit ==
    /\ counter = 0
    /\ counter_exp = NoExpiry
    /\ counter_gen = 0
    /\ counter_born = -1
    /\ counter_ttl_at = -1
    /\ fx_pc = [p \in Procs |-> "idle"]
    /\ fx_count = [p \in Procs |-> 0]
    /\ fx_gen = [p \in Procs |-> 0]
    /\ fx_obs = [p \in Procs |-> [at |-> 0, born |-> -1, ttl_at |-> -1]]
    /\ fx_log = <<>>

\* The rate limiter is not called in the cache specification.
RateConfigUnused ==
    /\ max_requests = 1
    /\ window_seconds = 1
    /\ sliding = FALSE

CacheInit ==
    /\ kv = NoValue
    /\ kv_exp = NoExpiry
    /\ lock = FALSE
    /\ lock_exp = NoExpiry
    /\ call = [p \in CacheProcs |-> IdleCall]

\* The cache is not called in the rate limiter specifications.
CacheUnused ==
    /\ args = [kind |-> "goc", serialize_json |-> TRUE,
               prevent_thundering_herd |-> TRUE, skip_cache_if |-> FALSE,
               ex |-> ExNone]
    /\ CacheInit

InitSliding ==
    /\ ClockInit /\ RateConfigInit /\ sliding = TRUE
    /\ SlidingInit /\ FixedInit /\ CacheUnused /\ KeysUnused

NextSliding ==
    \/ \E p \in Procs : CheckSlidingStart(p)
    \/ \E p \in Procs : CheckSlidingExecute(p)
    \/ Tick

SpecSliding == InitSliding /\ [][NextSliding]_vars

(***************************************************************************)
(* Specification of the fixed window limiter on one key.                   *)
(***************************************************************************)
InitFixed ==
    /\ ClockInit /\ RateConfigInit /\ sliding = FALSE
    /\ SlidingInit /\ FixedInit /\ CacheUnused /\ KeysUnused

NextFixed ==
    \/ \E p \in Procs : CheckFixedIncr(p)
    \/ \E p \in Procs : CheckFixedExpire(p)
    \/ \E p \in Procs : CheckFixedExpireFails(p)
    \/ Tick

SpecFixed == InitFixed /\ [][NextFixed]_vars

(***************************************************************************)
(* Specification of check_rate_limit on one key: either algorithm, any     *)
(* max_requests and window_seconds from 0 up (the code accepts them all),  *)
(* and store calls that can fail.                                          *)
(***************************************************************************)
InitRate ==
    /\ ClockInit
    /\ max_requests \in 0..MaxLimit
    /\ window_seconds \in 0..MaxWindow
    /\ sliding \in BOOLEAN
    /\ SlidingInit /\ FixedInit /\ CacheUnused /\ KeysUnused

RateTick == TickTo(MaxRateTime)

\* Checks started so far.
RateChecks ==
    Len(sl_log) + Cardinality({q \in Procs : sl_pc[q] = "pipe"})
        + Len(fx_log) + Cardinality({q \in Procs : fx_pc[q] = "expire"})

NextRate ==
    \/ \E p \in Procs : RateChecks < MaxRateChecks /\ CheckSlidingStart(p)
    \/ \E p \in Procs : CheckSlidingExecute(p)
    \/ \E p \in Procs, applied \in BOOLEAN : CheckSlidingFails(p, applied)
    \/ \E p \in Procs : RateChecks < MaxRateChecks /\ CheckFixedIncr(p)
    \/ \E p \in Procs, applied \in BOOLEAN :
           RateChecks < MaxRateChecks /\ CheckFixedIncrFails(p, applied)
    \/ \E p \in Procs : CheckFixedExpire(p)
    \/ \E p \in Procs : CheckFixedExpireFails(p)
    \/ RateTick

SpecRate == InitRate /\ [][NextRate]_vars

(***************************************************************************)
(* Specification of get_or_compute and the wrapper on one cache key.       *)
(***************************************************************************)
\* get_or_compute takes ex (None allowed) and serialize_json and always uses
\* the lock; the wrapper takes ttl, skip_cache_if and prevent_thundering_herd
\* and always reads and writes JSON.
CacheArgs ==
    {a \in [kind : {"goc", "wrap"}, serialize_json : BOOLEAN,
            prevent_thundering_herd : BOOLEAN, skip_cache_if : BOOLEAN,
            ex : {ExNone} \cup (1..MaxEx)] :
        /\ a.kind = "goc" => a.prevent_thundering_herd /\ ~a.skip_cache_if
        /\ a.kind = "wrap" => a.serialize_json /\ a.ex # ExNone}

InitCache ==
    /\ ClockInit /\ RateConfigUnused /\ SlidingInit /\ FixedInit
    /\ args \in CacheArgs
    /\ CacheInit
    /\ KeysUnused

CacheTick == TickTo(MaxCacheTime)

NextCache ==
    \/ \E p \in CacheProcs : CacheStart(p)
    \/ \E p \in CacheProcs : CacheRead(p)
    \/ \E p \in CacheProcs : CacheLock(p)
    \/ \E p \in CacheProcs, val \in ComputeValues : CacheCompute(p, val)
    \/ \E p \in CacheProcs : CacheComputeRaises(p)
    \/ \E p \in CacheProcs : CacheWrite(p)
    \/ \E p \in CacheProcs : CacheUnlock(p)
    \/ \E p \in CacheProcs : CacheStoreError(p)
    \/ CacheTick

SpecCache == InitCache /\ [][NextCache]_vars

(***************************************************************************)
(* Specification of get_or_compute and the wrapper on a key that holds a   *)
(* value which is not JSON.                                                *)
(***************************************************************************)
\* A text json.loads rejects, stored under the key by set(key, value, ex).
CorruptText == "not json"

\* The callers that read the key with get_json.
CorruptArgs == {a \in CacheArgs : a.serialize_json}

CorruptInit ==
    /\ kv = CorruptText
    /\ kv_exp \in {NoExpiry, Expire(MaxEx)}
    /\ lock = FALSE
    /\ lock_exp = NoExpiry
    /\ call = [p \in CacheProcs |-> IdleCall]

InitCorrupt ==
    /\ ClockInit /\ RateConfigUnused /\ SlidingInit /\ FixedInit
    /\ args \in CorruptArgs
    /\ CorruptInit
    /\ KeysUnused

SpecCorrupt == InitCorrupt /\ [][NextCache]_vars

(***************************************************************************)
(* Specification of the wrapped functions' entries: calls, invalidate and  *)
(* invalidate_all of two functions declared with the same decorator        *)
(* arguments on one service.                                               *)
(***************************************************************************)
DecoratorInit ==
    /\ key_prefix \in {NoString, "user"}
    /\ namespace \in {NoString, "", "app"}

InitInvalidate ==
    /\ ClockInit /\ RateConfigUnused /\ SlidingInit /\ FixedInit /\ CacheUnused
    /\ cfg_namespace \in {NoString, "svc"}
    /\ DecoratorInit
    /\ KeysInit
    /\ DeriveUnused

NextInvalidate ==
    \/ \E f \in Funcs, ca \in CallArgs : WrappedCall(f, ca)
    \/ \E f \in Funcs, ca \in CallArgs : Invalidate(f, ca)
    \/ \E f \in Funcs : InvalidateAll(f)

SpecInvalidate == InitInvalidate /\ [][NextInvalidate]_vars

(***************************************************************************)
(* Specification of _generate_cache_key as a function of its arguments.    *)
(***************************************************************************)
InitDerive ==
    /\ ClockInit /\ RateConfigUnused /\ SlidingInit /\ FixedInit /\ CacheUnused
    /\ cfg_namespace = NoString
    /\ DecoratorInit
    /\ KeysInit
    /\ derive_in \in DeriveInputs
    /\ derive_out = NotDerived

NextDerive == DeriveKeys

SpecDerive == InitDerive /\ [][NextDerive]_vars

(***************************************************************************)
(* C1: sliding window, empty set at start, maxRequests = N: of the first   *)
(* N+1 checks, when their timestamps all lie within one window, checks     *)
(* 1..N are allowed with remaining N-1, ..., 0 and check N+1 is rejected   *)
(* with remaining 0.                                                       *)
(***************************************************************************)
\* The first k checks were stamped, and executed by the store, inside one window.
WithinOneWindow(k) ==
    \A i, j \in 1..k :
        /\ sl_log[i].ts - sl_log[j].ts < window_seconds
        /\ sl_log[i].at - sl_log[j].ts < window_seconds

C1_SlidingBoundary ==
    \A k \in 1..Len(sl_log) :
        (k <= max_requests + 1 /\ WithinOneWindow(k)) =>
            IF k <= max_requests
            THEN sl_log[k].allowed /\ sl_log[k].remaining = max_requests - k
            ELSE ~sl_log[k].allowed /\ sl_log[k].remaining = 0

(***************************************************************************)
(* C2: fixed window under interleaved callers: within one lifetime of the  *)
(* counter key every check gets its own count, a check is allowed exactly  *)
(* when its count is at most maxRequests, remaining is                     *)
(* max(0, maxRequests - count), and a check beyond the first maxRequests   *)
(* of a lifetime is rejected with remaining 0.                             *)
(***************************************************************************)
C2_FixedCounts ==
    /\ \A i, j \in 1..Len(fx_log) :
           (i # j /\ fx_log[i].gen = fx_log[j].gen) => fx_log[i].count # fx_log[j].count
    /\ \A i \in 1..Len(fx_log) :
           LET r == fx_log[i]
           IN r.error = FALSE =>
                /\ r.count >= 1
                /\ r.allowed = (r.count <= max_requests)
                /\ r.remaining = (IF max_requests - r.count > 0
                                  THEN max_requests - r.count ELSE 0)
                /\ (r.count > max_requests => ~r.allowed /\ r.remaining = 0)

C2_Witness ==
    \E i, j \in 1..Len(fx_log) :
        /\ fx_log[i].gen = fx_log[j].gen
        /\ fx_log[i].allowed /\ ~fx_log[j].allowed
        /\ fx_log[j].count = max_requests + 1
        /\ \E p \in Procs : fx_pc[p] = "expire"

(***************************************************************************)
(* C3: get_or_compute called twice in immediate succession on an absent    *)
(* key, with no expiry in between, invokes compute exactly once and the    *)
(* second call returns the value the first call returned, whatever compute *)
(* returns and in both serialization modes.                                *)
(***************************************************************************)
\* q's call ran alone on an absent key and returned; p's call began after it,
\* ran alone and returned; the clock has not moved since q's call began.
InSuccession(q, p) ==
    /\ Done(q) /\ Done(p)
    /\ call[p].after
    /\ ~call[q].overlap /\ ~call[p].overlap
    /\ call[q].first = "miss" /\ call[q].first_text = NoValue
    /\ call[q].outcome = "value" /\ call[p].outcome = "value"
    /\ call[q].t_start = now

C3_CacheIdempotence ==
    args.kind = "goc" =>
        \A p \in CacheProcs :
            InSuccession(Other(p), p) =>
                /\ call[Other(p)].computed + call[p].computed = 1
                /\ call[p].ret = call[Other(p)].ret

(***************************************************************************)
(* C4: once get_or_compute calls have completed and none is in progress,   *)
(* whether compute succeeded, compute raised or the cache write failed,    *)
(* the lock key "<key>:lock" is absent from the store.                     *)
(***************************************************************************)
C4_LockCleanup ==
    (/\ args.kind = "goc"
     /\ \E p \in CacheProcs : Done(p)
     /\ \A p \in CacheProcs : ~Active(p)) => ~lock

(***************************************************************************)
(* C5: with the lock protocol on (get_or_compute, or a wrapper with        *)
(* prevent_thundering_herd), compute is executing in at most one caller at *)
(* any time.                                                               *)
(***************************************************************************)
LockProtocolOn == args.kind = "goc" \/ args.prevent_thundering_herd

Computing == {p \in CacheProcs : call[p].pc = "compute"}

C6_OnlyComputeFails ==
    args.kind = "goc" =>
        \A p \in CacheProcs :
            (Done(p) /\ ~call[p].raised) => call[p].outcome = "value"

(***************************************************************************)
(* C7: a wrapped call never ends with a store error of a key read or of    *)
(* the key write: when the first read failed and the re-read did not hit,  *)
(* or when the write failed, the function was executed and the call        *)
(* returns the function's own result.                                      *)
(***************************************************************************)
C7_WrapperDegrades ==
    args.kind = "wrap" =>
        \A p \in CacheProcs :
            Done(p) =>
                /\ call[p].error_at \notin {"read", "reread", "write"}
                /\ (/\ call[p].first = "fail" \/ call[p].write_failed
                    /\ call[p].error_at = "none"
                    /\ ~call[p].raised
                    /\ call[p].reread # "hit")
                   => /\ call[p].outcome = "value"
                      /\ call[p].computed = 1
                      /\ call[p].ret = call[p].result

C7_Witness ==
    /\ args.kind = "wrap"
    /\ \E p \in CacheProcs :
          /\ Done(p)
          /\ call[p].first = "fail"
          /\ call[p].write_failed
          /\ call[p].outcome = "value"
          /\ call[p].ret = PyDict

(***************************************************************************)
(* C8: when compute raises in get_or_compute or in a wrapped call, the     *)
(* call ends with that error and has written nothing under the cache key.  *)
(***************************************************************************)
C8_ComputeErrorNotCached ==
    \A p \in CacheProcs :
        (Done(p) /\ call[p].raised) =>
            /\ call[p].outcome = "compute_error"
            /\ "key" \notin call[p].wrote

C8_Witness ==
    \E p \in CacheProcs :
        /\ Done(p)
        /\ call[p].raised
        /\ call[p].outcome = "compute_error"
        /\ call[p].lock_acquired
        /\ kv = NoValue

(***************************************************************************)
(* C9: on a cache hit, that is when the first read finds the key present   *)
(* and deserializable, the call returns the stored value: compute is not   *)
(* invoked, no lock key is created and no store key is written or deleted. *)
(***************************************************************************)
PresentAndDeserializable(c) ==
    /\ c.first \in {"hit", "miss"}
    /\ c.first_text # NoValue
    /\ ReadValue(args.serialize_json, c.first_text).t # "JSONDecodeError"

C9_HitNoEffects ==
    \A p \in CacheProcs :
        (Done(p) /\ PresentAndDeserializable(call[p])) =>
            /\ call[p].computed = 0
            /\ call[p].wrote = {}
            /\ call[p].outcome = "value"
            /\ call[p].ret = ReadValue(args.serialize_json, call[p].first_text)

(***************************************************************************)
(* C10: sliding window recovery: a check that follows a rejected check and *)
(* whose timestamp is more than windowSeconds after every earlier check is *)
(* allowed with remaining = maxRequests - 1.                               *)
(***************************************************************************)
QuietBefore(j) ==
    \A i \in 1..(j - 1) : sl_log[j].ts - sl_log[i].ts > window_seconds

C10_SlidingRecovery ==
    \A j \in 2..Len(sl_log) :
        (~sl_log[j - 1].allowed /\ QuietBefore(j)) =>
            sl_log[j].allowed /\ sl_log[j].remaining = max_requests - 1

C10_Witness ==
    \E j \in 2..Len(sl_log) :
        /\ ~sl_log[j - 1].allowed
        /\ QuietBefore(j)
        /\ sl_log[j].allowed

(***************************************************************************)
(* Claims about check_rate_limit, continued.                               *)
(***************************************************************************)
\* The Checks that returned a pair, of the fixed and of the sliding limiter.
FixedReturned == {k \in 1..Len(fx_log) : ~fx_log[k].error}

SlidingReturned == {k \in 1..Len(sl_log) : ~sl_log[k].error}

\* C11, as claimed: a Check of the fixed window made once window_seconds have
\* elapsed since the Check whose increment created the counter starts a new
\* counter cycle (count 1) and returns allowed with remaining =
\* max_requests - 1.
C11_FixedReset ==
    \A k \in FixedReturned :
        LET r == fx_log[k]
        IN (r.born # -1 /\ r.at - r.born >= window_seconds)
               => r.count = 1 /\ r.allowed /\ r.remaining = max_requests - 1

\* C11, amended: the window runs from the moment the creating Check's expire
\* call took effect.  A Check made once window_seconds have elapsed since then
\* starts a new counter cycle (count 1) and returns allowed with remaining =
\* max_requests - 1; a counter whose expire call never took effect is not reset.
C11_FixedResetAfterExpirySet ==
    \A k \in FixedReturned :
        LET r == fx_log[k]
        IN (r.ttl_at # -1 /\ r.at - r.ttl_at >= window_seconds)
               => r.count = 1 /\ r.allowed /\ r.remaining = max_requests - 1

\* A counter that took more Checks than max_requests, and a later Check, made
\* once its window had elapsed, that started the next cycle.
C11_Witness ==
    \E j, k \in FixedReturned :
        /\ j < k
        /\ fx_log[j].gen < fx_log[k].gen
        /\ ~fx_log[j].allowed
        /\ fx_log[k].ttl_at # -1
        /\ fx_log[k].at - fx_log[k].ttl_at >= window_seconds
        /\ fx_log[k].count = 1

\* C12: the remaining value a Check returns is never negative, for the
\* sliding and for the fixed algorithm, whatever the number of Checks and
\* whatever max_requests.
C12_RemainingNonNegative ==
    /\ \A k \in SlidingReturned : sl_log[k].remaining >= 0
    /\ \A k \in FixedReturned : fx_log[k].remaining >= 0

\* A Check of a burst that is at least two past the limit.
C12_Witness ==
    \/ \E k \in SlidingReturned :
           sl_log[k].count > max_requests + 1 /\ sl_log[k].remaining = 0
    \/ \E k \in FixedReturned :
           fx_log[k].count > max_requests + 1 /\ fx_log[k].remaining = 0

\* C13: a Check whose store call fails ends with that error and returns no
\* pair; every other Check returns the pair its count gives; and a Check in
\* progress can always finish at once, whatever the count (it never waits
\* for capacity).
C13_StoreErrorSurfaces ==
    /\ \A k \in 1..Len(sl_log) :
           LET r == sl_log[k]
           IN /\ r.error <=> r.store_failed
              /\ ~r.error => /\ r.allowed = (r.count < max_requests)
                             /\ r.remaining \in 0..max_requests
    /\ \A k \in 1..Len(fx_log) :
           LET r == fx_log[k]
           IN /\ r.error <=> r.store_failed
              /\ ~r.error => /\ r.allowed = (r.count <= max_requests)
                             /\ r.remaining \in 0..max_requests
    /\ \A p \in Procs : sl_pc[p] = "pipe" => ENABLED CheckSlidingExecute(p)
    /\ \A p \in Procs : fx_pc[p] = "expire" => ENABLED CheckFixedExpire(p)

\* One Check was rejected and returned (it did not wait), and a later one
\* met a store failure.
C13_Witness ==
    \/ \E j, k \in 1..Len(sl_log) :
           j < k /\ ~sl_log[j].error /\ ~sl_log[j].allowed /\ sl_log[k].store_failed
    \/ \E j, k \in 1..Len(fx_log) :
           j < k /\ ~fx_log[j].error /\ ~fx_log[j].allowed /\ fx_log[k].store_failed

\* C14: with max_requests <= 0 or window_seconds <= 0 a Check makes no store
\* call and returns no pair: the store stays as it was.
C14_InvalidParametersRejected ==
    (max_requests <= 0 \/ window_seconds <= 0) =>
        /\ zset = {} /\ zset_exp = NoExpiry
        /\ counter = 0 /\ counter_gen = 0
        /\ \A p \in Procs : sl_pc[p] = "idle" /\ fx_pc[p] = "idle"
        /\ SlidingReturned = {} /\ FixedReturned = {}
        /\ \A k \in 1..Len(sl_log) : ~sl_log[k].store_failed
        /\ \A k \in 1..Len(fx_log) : ~fx_log[k].store_failed

\* A step that gives the counter key an expiry: the one call of
\* expire(key, window_seconds) in a counter lifetime, made by a caller whose
\* increment returned 1.
FixedExpirySetByCreator ==
    (counter_exp' # counter_exp /\ counter_exp' # NoExpiry) =>
        \E p \in Procs :
            /\ fx_pc[p] = "expire" /\ fx_pc'[p] = "idle"
            /\ fx_count[p] = 1
            /\ counter_exp = NoExpiry
            /\ counter_ttl_at = -1
            /\ counter_exp' = now + window_seconds

\* A step in which a Check returns a count greater than 1 leaves the expiry
\* of the counter key as it was.
FixedLaterChecksKeepExpiry ==
    (Len(fx_log') = Len(fx_log) + 1 /\ fx_log'[Len(fx_log')].count > 1) =>
        counter_exp' = counter_exp

\* C20, as claimed: in every counter lifetime the expiry is set exactly once,
\* by the Check whose increment returned 1, to window_seconds: once that Check
\* has ended the counter has its expiry; and no Check whose increment returned
\* more than 1 changes it.
C20_ExpirySetExactlyOnce ==
    /\ [](\A k \in 1..Len(fx_log) :
              (fx_log[k].count = 1 /\ fx_log[k].gen = counter_gen /\ counter # 0)
                  => counter_exp # NoExpiry)
    /\ [][FixedExpirySetByCreator /\ FixedLaterChecksKeepExpiry]_vars

\* C20, amended: the expiry is set at most once in a counter lifetime, by the
\* Check whose increment returned 1, to window_seconds, and it is set once that
\* Check has returned (not when its expire call failed); no Check whose
\* increment returned more than 1 changes it.
C20_ExpirySetOnceByCreator ==
    /\ [](\A k \in FixedReturned :
              (fx_log[k].count = 1 /\ fx_log[k].gen = counter_gen /\ counter # 0)
                  => counter_exp # NoExpiry)
    /\ [][FixedExpirySetByCreator /\ FixedLaterChecksKeepExpiry]_vars

\* The creating Check has set the expiry and returned, and a later Check of
\* the same lifetime has returned a count greater than 1.
C20_Witness ==
    \E j, k \in FixedReturned :
        /\ fx_log[j].count = 1 /\ fx_log[k].count > 1
        /\ fx_log[j].gen = counter_gen /\ fx_log[k].gen = counter_gen
        /\ counter # 0
        /\ counter_exp = counter_ttl_at + window_seconds

(***************************************************************************)
(* Claims about the lock key and skip_cache_if.                            *)
(***************************************************************************)
\* A step that creates the lock key gives it the expiry ttl, or 60 s when
\* get_or_compute is called without one.
LockCreatedWithExpiry ==
    (~lock /\ lock') =>
        lock_exp' = now + (IF args.ex = ExNone THEN LockDefaultEx ELSE args.ex)

\* No step gives a lock key that is there a later expiry.
LockExpiryNeverExtended == (lock /\ lock') => lock_exp' = lock_exp

\* C15: every lock key is created with an expiry (ttl, or the 60 s default),
\* the expiry is never extended, and a lock key is never in the store at or
\* after its expiry, whether or not its creator deleted it.
C15_LockExpires ==
    /\ [](lock => lock_exp # NoExpiry /\ now < lock_exp)
    /\ [][LockCreatedWithExpiry /\ LockExpiryNeverExtended]_vars

\* A wrapped call took the lock and its function raised; the wrapper never
\* deletes the lock, and the lock is gone once its expiry has elapsed.
C15_Witness ==
    /\ args.kind = "wrap"
    /\ ~lock
    /\ \E p \in CacheProcs :
           /\ Done(p) /\ call[p].lock_acquired /\ call[p].raised
           /\ now >= call[p].t_start + args.ex

\* C18: a wrapped call whose function returned a result that skip_cache_if
\* accepts (None here) returns that result and has not written the cache key.
C18_SkipLeavesKey ==
    \A p \in CacheProcs :
        LET c == call[p]
        IN (/\ args.kind = "wrap" /\ args.skip_cache_if
            /\ Done(p) /\ c.computed = 1 /\ ~c.raised /\ c.result = PyNone)
               => /\ c.outcome = "value" /\ c.ret = c.result
                  /\ "key" \notin c.wrote /\ ~c.write_failed

\* A wrapped call with skip_cache_if computed None and returned, and the key
\* is still absent.
C18_Witness ==
    /\ args.kind = "wrap" /\ args.skip_cache_if
    /\ kv = NoValue
    /\ \E p \in CacheProcs :
           /\ Done(p) /\ call[p].computed = 1 /\ ~call[p].raised
           /\ call[p].result = PyNone /\ call[p].outcome = "value"

(***************************************************************************)
(* Claims about the wrapped functions' keys.                               *)
(***************************************************************************)
\* Two keyword-argument dicts hold the same items.
SamePairs(kw1, kw2) ==
    {kw1[i] : i \in 1..Len(kw1)} = {kw2[i] : i \in 1..Len(kw2)}

SameArgs(ca1, ca2) == ca1.pos = ca2.pos /\ SamePairs(ca1.kwargs, ca2.kwargs)

\* The keys written, before operation k, by calls of f with the arguments ca.
EntryKeys(f, ca, k) ==
    UNION {inv_log[j].after \ inv_log[j].before :
               j \in {i \in 1..(k - 1) : /\ inv_log[i].op = "call"
                                         /\ inv_log[i].func = f
                                         /\ SameArgs(inv_log[i].ca, ca)}}

\* C16: invalidate(args) of a wrapped function deletes the entry written by
\* the calls with those arguments and nothing else; it returns 1 when that
\* entry is in the store and 0 when it is not.
C16_InvalidateExact ==
    \A k \in 1..Len(inv_log) :
        LET e == inv_log[k]
            entry == EntryKeys(e.func, e.ca, k) \cap e.before
        IN e.op = "invalidate" =>
               /\ e.after = e.before \ entry
               /\ e.returned = (IF entry = {} THEN 0 ELSE 1)

\* invalidate of a cached entry returned 1, and invalidate of the same
\* arguments again returned 0.
C16_Witness ==
    \E j, k \in 1..Len(inv_log) :
        /\ j < k
        /\ inv_log[j].op = "invalidate" /\ inv_log[k].op = "invalidate"
        /\ inv_log[j].func = inv_log[k].func
        /\ SameArgs(inv_log[j].ca, inv_log[k].ca)
        /\ inv_log[j].returned = 1 /\ inv_log[k].returned = 0

\* C17: invalidate_all of a wrapped function deletes the entries of that
\* function that are in the store, returns their number, and deletes no other
\* key, with and without a namespace configured on the service.
C17_InvalidateAllExact ==
    \A k \in 1..Len(inv_log) :
        LET e == inv_log[k]
        IN e.op = "invalidate_all" =>
               /\ e.before \ e.after = e.own
               /\ e.after \subseteq e.before
               /\ e.returned = Cardinality(e.own)

\* C19: the key derived for a function, prefix, namespace and positional
\* arguments is the same for two keyword-argument dicts that hold the same
\* items, whatever their insertion order.
C19_KwargsOrderIrrelevant ==
    (derive_out # NotDerived /\ SamePairs(derive_in.kwargs1, derive_in.kwargs2))
        => derive_out[1] = derive_out[2]

\* Two dicts of the same two items in different insertion order were given
\* one key.
C19_Witness ==
    /\ derive_out # NotDerived
    /\ Len(derive_in.kwargs1) >= 2
    /\ derive_in.kwargs1 # derive_in.kwargs2
    /\ SamePairs(derive_in.kwargs1, derive_in.kwargs2)
    /\ derive_out[1] = derive_out[2]

(***************************************************************************)
(* Claims about the two limiters' keys.                                    *)
(***************************************************************************)
\* The Checks whose increment created a counter (returned 1) and whose expire
\* call then failed or was never made.
FixedOrphaned == {j \in 1..Len(fx_log) : fx_log[j].count = 1 /\ fx_log[j].error}

\* C21: when the Check whose increment returned 1 fails before its expire
\* took effect, the counter key stays in the store with no expiry, no later
\* Check starts a new counter, and every Check of that counter whose count
\* is past max_requests is rejected with remaining 0, however much time has
\* passed.
C21_OrphanedCounterDeniesForever ==
    \A j \in FixedOrphaned :
        /\ counter # 0 /\ counter_exp = NoExpiry
        /\ counter_gen = fx_log[j].gen
        /\ \A k \in FixedReturned :
               (fx_log[k].gen = fx_log[j].gen /\ fx_log[k].count > max_requests)
                   => ~fx_log[k].allowed /\ fx_log[k].remaining = 0

\* The creating Check failed before its expire, and a Check made a whole
\* window or more after the counter was created was still rejected.
C21_Witness ==
    \E j \in FixedOrphaned, k \in FixedReturned :
        /\ fx_log[k].gen = fx_log[j].gen
        /\ fx_log[k].at - fx_log[k].born >= window_seconds
        /\ ~fx_log[k].allowed
        /\ counter_exp = NoExpiry


\* The Checks of the sliding limiter whose batch ran, and those of them that
\* ran it at the clock value they had read.
SlidingPrompt(k) == \A i \in 1..k : sl_log[i].at = sl_log[i].ts

\* C22 (as stated): at any instant the sorted set holds only members whose
\* score is at least now - window_seconds, and the count a Check uses never
\* includes a member with score <= now - window_seconds.
C22_SlidingOnlyFresh ==
    /\ \A m \in zset : m >= now - window_seconds
    /\ \A k \in SlidingReturned :
           \A m \in sl_log[k].counted : m > sl_log[k].at - window_seconds

\* C22 (amended): members are removed only inside a Check's batch, and
\* relative to the clock value that Check read before it ran the batch.  The
\* count a Check uses and the set its batch leaves hold only members with score
\* greater than that Check's own now - window_seconds, and the set never holds
\* anything but what the last batch left; between Checks older members stay
\* in the set until the next batch or the key's expiry removes them.
C22_SlidingFreshAtCheck ==
    /\ \A k \in SlidingReturned :
           /\ \A m \in sl_log[k].counted : m > sl_log[k].ts - window_seconds
           /\ \A m \in sl_log[k].stored : m > sl_log[k].ts - window_seconds
           /\ sl_log[k].count = Cardinality(sl_log[k].counted)
    /\ Len(sl_log) > 0 => zset \subseteq sl_log[Len(sl_log)].stored

\* A Check's batch removed a member that had left its window and counted one
\* that had not, and a member older than the clock's window is in the set.
C22_Witness ==
    /\ \E k \in SlidingReturned :
           /\ sl_log[k].before \ sl_log[k].counted # {}
           /\ sl_log[k].counted # {}
    /\ \E m \in zset : m < now - window_seconds


\* C25: each Check adds one new member to the key's set, so the set's
\* cardinality right after a Check is the count it observed plus one, also when
\* two Checks read the same clock value; Checks with equal timestamps are never
\* admitted more than max_requests times within one window.
C25_OneNewMemberPerCheck ==
    \A k \in SlidingReturned :
        /\ ~ExpireDeletes(window_seconds)
               => Cardinality(sl_log[k].stored) = sl_log[k].count + 1
        /\ Cardinality({j \in 1..k : /\ sl_log[j].allowed
                                     /\ sl_log[j].ts = sl_log[k].ts})
               <= max_requests

\* C23: a rejected Check adds its timestamp as well, so a Check that has at
\* least max_requests earlier Checks, admitted or rejected, inside its window
\* is rejected.
C23_SustainedTrafficRejected ==
    \A k \in SlidingReturned :
        (/\ SlidingPrompt(k)
         /\ Cardinality({j \in 1..(k - 1) :
                            sl_log[j].ts > sl_log[k].ts - window_seconds})
                >= max_requests)
            => ~sl_log[k].allowed

\* C24: the batch of one Check runs with no other caller's command in
\* between, and the Checks admitted inside one window exceed max_requests by
\* at most the number of racing callers minus one.
C24_RaceOverAdmissionBounded ==
    \A k \in SlidingReturned :
        SlidingPrompt(k)
            => Cardinality({j \in 1..k :
                               /\ sl_log[j].allowed
                               /\ sl_log[j].ts > sl_log[k].ts - window_seconds})
                   <= max_requests + Cardinality(Procs) - 1


(***************************************************************************)
(* Claims about the lock of get_or_compute and of the wrapper, corrupt     *)
(* entries and the expiry of keys.                                         *)
(***************************************************************************)
\* The steps of get_or_compute that follow the SET NX on the lock key.
PastLock == {"reread", "compute", "write", "unlock"}

C27_CorruptReadIsMiss ==
    \A p \in CacheProcs :
        LET c == call[p]
        IN (c.first = "corrupt" \/ c.reread = "corrupt") =>
               /\ c.outcome # "decode_error"
               /\ (Done(p) /\ c.outcome = "value" /\ c.reread # "hit")
                      => c.computed = 1


\* C28: when a wrapped call with prevent_thundering_herd that acquired the
\* lock has returned (result cached, result skipped, or function raised),
\* and no call in progress holds the lock, the lock key is absent.
C28_WrapperReleasesLock ==
    (args.kind = "wrap" /\ args.prevent_thundering_herd) =>
        \A p \in CacheProcs :
            (/\ Done(p) /\ call[p].lock_acquired
             /\ ~(Active(Other(p)) /\ call[Other(p)].lock_acquired))
                => ~lock


\* C29: every key present in the store carries an expiry: the cache entry
\* written by get_or_compute or a wrapped call, the lock key, the sliding
\* limiter's sorted set and the fixed limiter's counter.
C29_EveryKeyExpires ==
    /\ kv # NoValue => kv_exp # NoExpiry
    /\ lock => lock_exp # NoExpiry
    /\ zset # {} => zset_exp # NoExpiry
    /\ counter # 0 => counter_exp # NoExpiry


\* C30: get_or_compute deletes the lock key only in the call that created it:
\* while the caller that acquired the lock is still computing or writing, and
\* the lock's expiry has not passed, the lock key is present.
C30_OnlyHolderDeletesLock ==
    args.kind = "goc" =>
        \A p \in CacheProcs :
            (/\ call[p].lock_acquired
             /\ call[p].pc \in {"compute", "write"}
             /\ now < call[p].t_start + LockEx(args.kind, args.ex))
                => lock

=============================================================================
